---- MODULE Spec2Model ----
(***************************************************************************)
(* Model of the DDPM / DDIM diffusion engine of 2d_plot_diffusion_todo/    *)
(* ddpm.py: the variance scheduler (BaseScheduler), the coefficient gather *)
(* (extract), the single-step samplers (q_sample, p_sample, p_sample_mu,   *)
(* p_sample_x0, ddim_p_sample), the four sampling loops and the three loss *)
(* computations; and of the image sampler of image_diffusion_todo/model.py *)
(* (DiffusionModule.sample) with its classifier-free guidance.             *)
(*                                                                         *)
(* Real numbers are fixed-point integers in units of 1/Scale (beta_1 =     *)
(* 1e-4 is 1 unit); variances are kept as exact fractions num/den.         *)
(* A timestep argument is a sequence: a tensor of shape (B,); a Python int *)
(* or a one-element tensor is a sequence of length 1.                      *)
(* A sample tensor is an identifier: 0 is the initial noise of an          *)
(* operation, k the tensor returned by its k-th step.                      *)
(***************************************************************************)
EXTENDS Integers, Sequences, FiniteSets, TLC

VARIABLES
    ctor,    \* the arguments the scheduler was constructed with
    sched,   \* the scheduler: its buffers, or the error its constructor raised
    pc,      \* "idle", or the sampling loop that is running
    args,    \* the arguments of the running loop
    ts,      \* the timesteps the running loop iterates over
    prevs,   \* the t_prev paired with each of them (DDIM)
    i,       \* position of the running loop in ts
    xt,      \* the loop's current sample
    calls,   \* the denoising steps the running loop has made
    reads,   \* the schedule reads of the current or last operation
    result,  \* the outcome of the last operation that ended
    traj     \* the image sampler's list of samples

vars ==
    <<ctor, sched, pc, args, ts, prevs, i, xt, calls, reads, result, traj>>

(* ---------------------------- bounds ---------------------------------- *)

\* Largest num_train_timesteps the constructor is tried with.
MaxT == 4

\* Largest batch of per-example timesteps handed to a step function.
MaxBatch == 2

(* ------------------------ program constants --------------------------- *)

\* Fixed-point unit: the default beta_1 = 1e-4 is Beta1 / Scale.
Scale == 10000

\* beta_1 = 1e-4 and beta_T = 0.02, in units of 1/Scale.
Beta1 == 1

BetaT == 200

\* beta_1 ** 0.5 = 0.01 and beta_T ** 0.5 = 0.1414, in units of 1/Scale.
SqrtBeta1 == 100

SqrtBetaT == 1414

(* --------------------------- inputs ----------------------------------- *)

\* num_train_timesteps given to the constructor: negative, zero, positive.
TInputs == (-1)..MaxT

\* mode given to the constructor: the two implemented ones and another.
ModeInputs == {"linear", "quad", "cosine"}

\* A timestep handed to a step function of a schedule of length n:
\* in range, or just outside on either side.
StepInputs(n) == (-1)..n

\* Tensors of 1..MaxBatch timesteps.
BatchInputs(n) == UNION {[1..b -> StepInputs(n)] : b \in 1..MaxBatch}

\* num_inference_timesteps handed to the DDIM loop.
NInputs == (-1)..(MaxT + 1)

EtaInputs == {0, 1}

(* -------------------------- the schedule ------------------------------ *)

Max0(n) == IF n > 0 THEN n ELSE 0

\* np.arange(0, n)[::-1]: [n-1, ..., 0], empty for n <= 0.
ReversedArange(n) == [k \in 1..Max0(n) |-> n - k]

\* torch.linspace(a, b, steps=n) for n >= 0: n evenly spaced values.
Linspace(a, b, n) ==
    [k \in 1..n |-> IF n = 1 THEN a ELSE a + ((k - 1) * (b - a)) \div (n - 1)]

\* torch.cumprod(alphas, dim=0), fixed-point.
RECURSIVE CumProd(_, _)
CumProd(alphas, k) ==
    IF k = 1 THEN alphas[1]
    ELSE (CumProd(alphas, k - 1) * alphas[k]) \div Scale

NoSched ==
    [raised |-> "none", num_train_timesteps |-> 0, timesteps |-> <<>>,
     betas |-> <<>>, alphas |-> <<>>, alphas_cumprod |-> <<>>]

\* The buffers registered from betas (lines 56-61).
Buffers(T, betas) ==
    LET alphas == [k \in 1..Len(betas) |-> Scale - betas[k]]
    IN  [raised |-> "none",
         num_train_timesteps |-> T,
         timesteps |-> ReversedArange(T),
         betas |-> betas,
         alphas |-> alphas,
         alphas_cumprod |-> [k \in 1..Len(betas) |-> CumProd(alphas, k)]]

\* BaseScheduler.__init__(num_train_timesteps=T, mode=mode).  The timestep
\* array is built first and never raises; torch.linspace raises for a
\* negative number of steps and returns an empty tensor for zero steps;
\* an unknown mode raises NotImplementedError.  T itself is never checked.
BaseScheduler_init(T, mode) ==
    IF mode = "linear" THEN
        IF T < 0 THEN [NoSched EXCEPT !.raised = "RuntimeError"]
        ELSE Buffers(T, Linspace(Beta1, BetaT, T))
    ELSE IF mode = "quad" THEN
        IF T < 0 THEN [NoSched EXCEPT !.raised = "RuntimeError"]
        ELSE Buffers(T, [k \in 1..T |->
                 (Linspace(SqrtBeta1, SqrtBetaT, T)[k]
                  * Linspace(SqrtBeta1, SqrtBetaT, T)[k]) \div Scale])
    ELSE [NoSched EXCEPT !.raised = "NotImplementedError"]

(* ----------------------------- extract -------------------------------- *)

\* An index check that lets negative indices wrap, as Python indexing does.
IndexOkWrapping(input, idx) == idx \in (-Len(input))..(Len(input) - 1)

\* torch.gather(input, dim=0, index=t) checks every index against
\* [0, len(input)) and raises otherwise (negative indices do not wrap).
IndexOk(input, idx) == idx \in 0..(Len(input) - 1)

\* The element gathered for an index that passed the check.
Elem(input, idx) == input[(idx % Len(input)) + 1]

\* extract(input, t, x): the gathered coefficients, or a raised error.
extract(input, t) ==
    IF \A k \in 1..Len(t) : IndexOk(input, t[k])
    THEN [ok |-> TRUE, val |-> [k \in 1..Len(t) |-> Elem(input, t[k])]]
    ELSE [ok |-> FALSE, val |-> <<>>]

(* ------------------- execution of a step function --------------------- *)

\* A step function is a straight line of schedule reads (calls of extract)
\* around one call of the network; the first read that raises ends it.
Read(arr, idx) == [kind |-> "read", arr |-> arr, idx |-> idx]

Net == [kind |-> "net", arr |-> "network", idx |-> <<>>]

\* An in-place operation (`+=`) on the tensor named.
Write(tensor) == [kind |-> "write", arr |-> tensor, idx |-> <<>>]

Buffer(s, arr) ==
    CASE arr = "betas" -> s.betas
      [] arr = "alphas" -> s.alphas
      [] arr = "alphas_cumprod" -> s.alphas_cumprod

Fails(s, e) == e.kind = "read" /\ ~extract(Buffer(s, e.arr), e.idx).ok

\* Position of the first read of the plan that raises, 0 when none does.
FirstFail(s, plan) ==
    IF \E k \in 1..Len(plan) : Fails(s, plan[k])
    THEN CHOOSE k \in 1..Len(plan) :
             /\ Fails(s, plan[k])
             /\ \A j \in 1..(k - 1) : ~Fails(s, plan[j])
    ELSE 0

\* What running the plan does: whether it raised, how many network calls
\* were made before it ended, the reads it performed and the tensors it
\* changed in place.
Run(s, plan) ==
    LET ff == FirstFail(s, plan)
        done == IF ff = 0 THEN Len(plan) ELSE ff
    IN  [raised |-> ff # 0,
         net |-> Cardinality({k \in 1..done : plan[k].kind = "net"}),
         reads |-> UNION {{[arr |-> plan[k].arr, idx |-> plan[k].idx[j]] :
                              j \in 1..Len(plan[k].idx)} :
                          k \in {n \in 1..done : plan[n].kind = "read"}},
         writes |-> {plan[k].arr :
                        k \in {n \in 1..done : plan[n].kind = "write"}}]

\* t - 1 on a tensor of timesteps.
Minus1(t) == [k \in 1..Len(t) |-> t[k] - 1]

(* ---------------------------- variances ------------------------------- *)

\* No injected noise.
NoVar == [num |-> 0, den |-> 1]

\* sigma_t ** 2 = beta_t, in units of 1/Scale.
BetaVar(s, t) == [num |-> Elem(s.betas, t), den |-> 1]

\* sigma_t ** 2 = ((1 - alpha_bar_{t-1}) / (1 - alpha_bar_t)) * beta_t,
\* in units of 1/Scale.
PosteriorVar(s, t) ==
    [num |-> (Scale - Elem(s.alphas_cumprod, t - 1)) * Elem(s.betas, t),
     den |-> Scale - Elem(s.alphas_cumprod, t)]

\* Equality of two fractions.
SameVar(a, b) == a.num * b.den = b.num * a.den

(* -------------------------- step functions ---------------------------- *)

\* What a step function that raised leaves behind.
Raised(r) ==
    [raised |-> TRUE, net |-> r.net, reads |-> r.reads, writes |-> r.writes,
     out |-> <<>>]

Returned(r, out) ==
    [raised |-> FALSE, net |-> r.net, reads |-> r.reads, writes |-> r.writes,
     out |-> out]

\* The reads of the posterior variance (lines 140-142, 156-158).
PosteriorReads(t) ==
    <<Read("alphas_cumprod", Minus1(t)), Read("alphas_cumprod", t),
      Read("betas", t)>>

\* The variance p_sample scales its noise with: the posterior variance
\* when use_sigma_is_beta is set, beta_t when it is not.
p_sample_var(s, t, use_sigma_is_beta) ==
    IF use_sigma_is_beta THEN PosteriorVar(s, t) ELSE BetaVar(s, t)

\* An in-place addition that lands in the betas buffer.
InPlaceTargetBuffer == "betas"

\* The tensor `x_t_prev += ...` (line 165) changes in place: x_t_prev, the
\* fresh result of the arithmetic of line 130.
InPlaceTarget == "x_t_prev"

\* The reads p_sample makes for its noise scale.  In the batch branch they
\* are made for every example, t == 0 included (the mask is applied after);
\* in the single-timestep branch only when t > 0, where the beta_t branch
\* adds the noise in place.
p_sample_noise_reads(t, use_sigma_is_beta) ==
    IF Len(t) > 1
    THEN IF use_sigma_is_beta THEN PosteriorReads(t)
         ELSE <<Read("betas", t)>>
    ELSE IF t[1] > 0
    THEN IF use_sigma_is_beta THEN PosteriorReads(t)
         ELSE <<Read("betas", t), Write(InPlaceTarget)>>
    ELSE <<>>

\* p_sample(xt, t, use_sigma_is_beta): one result per timestep of t.
p_sample(s, t, use_sigma_is_beta) ==
    LET plan == <<Read("alphas", t), Read("alphas_cumprod", t), Net,
                  Read("alphas", t)>>
                \o p_sample_noise_reads(t, use_sigma_is_beta)
        r == Run(s, plan)
    IN  IF r.raised THEN Raised(r)
        ELSE Returned(r, [k \in 1..Len(t) |->
                 [mean |-> <<"eps", Elem(s.alphas, t[k]),
                             Elem(s.alphas_cumprod, t[k])>>,
                  noisy |-> t[k] > 0,
                  var |-> IF t[k] > 0
                          THEN p_sample_var(s, t[k], use_sigma_is_beta)
                          ELSE NoVar]])

\* The variance p_sample_mu and p_sample_x0 scale their noise with: beta_t
\* when use_sigma_is_beta is set, the posterior variance when it is not.
mu_x0_var(s, t, use_sigma_is_beta) ==
    IF use_sigma_is_beta THEN BetaVar(s, t) ELSE PosteriorVar(s, t)

\* `noise = ... if t > 0 else ...` (lines 298, 388): the truth value of a
\* tensor of more than one element is ambiguous and raises.
AmbiguousBool(t) == Len(t) > 1

NothingRun == [raised |-> TRUE, net |-> 0, reads |-> {}, writes |-> {}]

\* p_sample_mu(xt, t, use_sigma_is_beta).  alpha_bar_{t-1} is read before
\* anything looks at t, so the t == 0 branch (mu_prev = mu_pred) is only
\* reached if that read succeeds.
p_sample_mu(s, t, use_sigma_is_beta) ==
    IF AmbiguousBool(t) THEN Raised(NothingRun)
    ELSE
    LET plan == PosteriorReads(t) \o <<Net>>
                \o (IF t[1] > 0 /\ use_sigma_is_beta
                    THEN <<Read("betas", t)>> ELSE <<>>)
        r == Run(s, plan)
    IN  IF r.raised THEN Raised(r)
        ELSE Returned(r, <<[mean |-> <<"mu">>,
                            noisy |-> t[1] > 0,
                            var |-> IF t[1] > 0
                                    THEN mu_x0_var(s, t[1], use_sigma_is_beta)
                                    ELSE NoVar]>>)

\* p_sample_x0(xt, t, use_sigma_is_beta): as p_sample_mu, the mean rebuilt
\* from alpha_t, alpha_bar_{t-1}, alpha_bar_t and beta_t.
p_sample_x0(s, t, use_sigma_is_beta) ==
    IF AmbiguousBool(t) THEN Raised(NothingRun)
    ELSE
    LET plan == PosteriorReads(t) \o <<Read("alphas", t), Net>>
                \o (IF t[1] > 0 /\ use_sigma_is_beta
                    THEN <<Read("betas", t)>> ELSE <<>>)
        r == Run(s, plan)
    IN  IF r.raised THEN Raised(r)
        ELSE Returned(r, <<[mean |-> <<"x0", Elem(s.alphas, t[1]),
                                       Elem(s.alphas_cumprod, t[1] - 1),
                                       Elem(s.alphas_cumprod, t[1]),
                                       Elem(s.betas, t[1])>>,
                            noisy |-> t[1] > 0,
                            var |-> IF t[1] > 0
                                    THEN mu_x0_var(s, t[1], use_sigma_is_beta)
                                    ELSE NoVar]>>)

\* q_sample(x0, t, noise): one gather of alpha_bar_t, no network call.
q_sample(s, t) ==
    LET r == Run(s, <<Read("alphas_cumprod", t)>>)
    IN  IF r.raised THEN Raised(r)
        ELSE Returned(r, [k \in 1..Len(t) |->
                 [mean |-> <<"q", Elem(s.alphas_cumprod, t[k])>>,
                  noisy |-> TRUE,
                  var |-> [num |-> Scale - Elem(s.alphas_cumprod, t[k]),
                           den |-> 1]]])

\* alpha_prod_t_prev (lines 213-216): alpha_bar at t_prev, or ones when
\* t_prev is negative.
alpha_prod_t_prev(s, t_prev) ==
    IF t_prev >= 0 THEN Elem(s.alphas_cumprod, t_prev) ELSE Scale

\* sigma_t_squared with the factor eta**2 left out.
sigma_t_squared_no_eta(s, t, t_prev, eta) ==
    [num |-> (Scale - alpha_prod_t_prev(s, t_prev)) * Elem(s.betas, t),
     den |-> Scale - Elem(s.alphas_cumprod, t)]

\* sigma_t_squared = (1 - alpha_prod_t_prev) / (1 - alpha_prod_t) * betas
\* * eta**2 (line 218), in units of 1/Scale.
sigma_t_squared(s, t, t_prev, eta) ==
    [num |-> (Scale - alpha_prod_t_prev(s, t_prev)) * Elem(s.betas, t)
             * eta * eta,
     den |-> Scale - Elem(s.alphas_cumprod, t)]

\* ddim_p_sample(xt, t, t_prev, eta) for one-element t and t_prev.
\* noisy: random_noise is randn * sqrt(sigma_t_squared) (t_prev >= 0)
\* rather than zeros (line 225).
ddim_p_sample(s, t, t_prev, eta) ==
    LET plan == <<Read("alphas_cumprod", t)>>
                \o (IF t_prev[1] >= 0
                    THEN <<Read("alphas_cumprod", t_prev)>> ELSE <<>>)
                \o <<Read("betas", t), Net>>
        r == Run(s, plan)
    IN  IF r.raised THEN Raised(r)
        ELSE Returned(r, <<[mean |-> <<"ddim", Elem(s.alphas_cumprod, t[1]),
                                       alpha_prod_t_prev(s, t_prev[1])>>,
                            noisy |-> t_prev[1] >= 0,
                            var |-> sigma_t_squared(s, t[1], t_prev[1], eta)]>>)

(* ------------------------------ losses -------------------------------- *)

\* The timesteps torch.randint(0, T, ...) draws from (line 284).
loss_timesteps(n) == 0..(n - 1)

\* A draw for the mu / x0 losses that starts at 0.
loss_mu_timesteps_from_zero(n) == 0..(n - 1)

\* The timesteps torch.randint(1, T, ...) draws from (lines 368, 465).
loss_mu_timesteps(n) == 1..(n - 1)

\* compute_loss(x0) with the drawn timesteps t: q_sample, then the network.
compute_loss(s, t) ==
    LET r == Run(s, <<Read("alphas_cumprod", t), Net>>)
    IN  IF r.raised THEN Raised(r) ELSE Returned(r, <<>>)

\* compute_loss_mu_predictor(x0) with the drawn timesteps t: q_sample, the
\* posterior-mean weights (lines 374-377), then the network.
compute_loss_mu_predictor(s, t) ==
    LET r == Run(s, <<Read("alphas_cumprod", t),
                      Read("alphas_cumprod", Minus1(t)),
                      Read("alphas_cumprod", t), Read("alphas", t),
                      Read("betas", t), Net>>)
    IN  IF r.raised THEN Raised(r) ELSE Returned(r, <<>>)

\* compute_loss_x0_predictor(x0) with the drawn timesteps t.
compute_loss_x0_predictor(s, t) ==
    LET r == Run(s, <<Read("alphas_cumprod", t), Net>>)
    IN  IF r.raised THEN Raised(r) ELSE Returned(r, <<>>)

(* ------------------------------ loops --------------------------------- *)

\* `for t in self.var_scheduler.timesteps` (line 188).
p_sample_loop_timesteps(s) == s.timesteps

\* The mu / x0 loop running over every timestep, t = 0 included.
p_sample_loop_mu_timesteps_all(s) == s.timesteps

\* `for t in self.var_scheduler.timesteps[:-1]` (lines 347, 444).
p_sample_loop_mu_timesteps(s) ==
    SubSeq(s.timesteps, 1, Len(s.timesteps) - 1)

\* Python's a // b for a >= 0 and b # 0 (floor division).
FloorDiv(a, b) ==
    IF b > 0 THEN a \div b ELSE -((a + (-b) - 1) \div (-b))

\* step_ratio = num_train_timesteps // num_inference_timesteps (line 248).
step_ratio(T, N) == FloorDiv(T, N)

\* The strided timesteps in ascending order (the [::-1] left out).
ddim_timesteps_ascending(T, N) ==
    [k \in 1..Max0(N) |-> (k - 1) * step_ratio(T, N)]

\* (np.arange(0, N) * step_ratio)[::-1] (lines 249-255); empty for N <= 0.
ddim_timesteps(T, N) ==
    [k \in 1..Max0(N) |-> (N - k) * step_ratio(T, N)]

\* The predecessor in the subsequence, -1 after the last.
ddim_prev_timesteps_sentinel(T, N) ==
    [k \in 1..Max0(N) |->
        IF k < Max0(N) THEN ddim_timesteps(T, N)[k + 1] ELSE -1]

\* prev_timesteps = timesteps - step_ratio (line 256).
ddim_prev_timesteps(T, N) ==
    [k \in 1..Max0(N) |-> ddim_timesteps(T, N)[k] - step_ratio(T, N)]

Loops ==
    {"p_sample_loop", "p_sample_loop_mu", "p_sample_loop_x0",
     "ddim_p_sample_loop"}

\* The step function a loop calls (lines 190, 262, 349, 446).
StepOf(loop, s, t, t_prev, a) ==
    CASE loop = "p_sample_loop" -> p_sample(s, <<t>>, a.flag)
      [] loop = "p_sample_loop_mu" -> p_sample_mu(s, <<t>>, a.flag)
      [] loop = "p_sample_loop_x0" -> p_sample_x0(s, <<t>>, a.flag)
      [] loop = "ddim_p_sample_loop" ->
             ddim_p_sample(s, <<t>>, <<t_prev>>, a.eta)

\* `xt = self.p_sample(xt, ...)`: the loop's sample becomes the step's output.
NextSample(old, out) == out

(* --------------------------- image sampler ---------------------------- *)

\* guidance_scale is a float, kept in tenths: 1.0 is 10.
GuidanceOne == 10

GuidanceInputs == {5, 10, 15}

\* class_label: None, or a tensor of class indices (1, 2, ...; 0 is the
\* null class).
NoneLabel == [is_none |-> TRUE, labels |-> <<>>]

Labels(l) == [is_none |-> FALSE, labels |-> l]

ClassLabelInputs ==
    {NoneLabel} \cup
    {Labels(l) : l \in UNION {[1..n -> {1, 2}] : n \in 0..MaxBatch}}

\* Guidance that is also active at guidance_scale = 1.0.
do_classifier_free_guidance_inclusive(guidance_scale) ==
    guidance_scale >= GuidanceOne

\* do_classifier_free_guidance = guidance_scale > 1.0 (model.py line 57).
do_classifier_free_guidance(guidance_scale) == guidance_scale > GuidanceOne

\* The two asserts of lines 65-66.
LabelsAccepted(class_label, batch_size) ==
    /\ ~class_label.is_none
    /\ Len(class_label.labels) = batch_size

\* torch.cat([torch.zeros(batch_size), class_label]) (line 67).
WithNullLabels(class_label, batch_size) ==
    Labels([k \in 1..batch_size |-> 0] \o class_label.labels)

\* x_T = torch.randn(...) (line 55): pure noise, the output of no step.
x_T == [id |-> 0, from |-> -1, t |-> -1, pred |-> <<>>, cpu |-> FALSE]

\* The timesteps the image scheduler iterates over: T - 1 down to 0.
var_scheduler_timesteps(s) == ReversedArange(s.num_train_timesteps)

\* One reverse step of the image scheduler: a new tensor, the k-th of the
\* pass, computed from x_t at timestep t with the noise prediction.
var_scheduler_step(k, x_t, t, noise_pred) ==
    [id |-> k, from |-> x_t.id, t |-> t, pred |-> noise_pred, cpu |-> FALSE]

\* The network invocations of one iteration (lines 73-83), in order, and
\* the weights noise_pred combines their outputs with (in tenths).
network_calls(x_t, t, cfg, class_label, batch_size) ==
    IF cfg
    THEN <<[x |-> x_t.id, t |-> t,
            class_label |-> Labels(SubSeq(class_label.labels, 1, batch_size))],
           [x |-> x_t.id, t |-> t,
            class_label |-> Labels(SubSeq(class_label.labels, batch_size + 1,
                                          Len(class_label.labels)))]>>
    ELSE <<[x |-> x_t.id, t |-> t, class_label |-> NoneLabel]>>

noise_pred(cfg, guidance_scale) ==
    IF cfg THEN <<-guidance_scale, GuidanceOne + guidance_scale>>
    ELSE <<GuidanceOne>>

\* An iteration that overwrites the last sample with the new one.
traj_replace_last(tr, x_t_prev) == [tr EXCEPT ![Len(tr)] = x_t_prev]

\* traj[-1] = traj[-1].cpu(); traj.append(x_t_prev.detach()) (lines 87-88).
traj_append(tr, x_t_prev) ==
    Append([tr EXCEPT ![Len(tr)] = [@ EXCEPT !.cpu = TRUE]], x_t_prev)

(* ------------------------------ state --------------------------------- *)

\* What a step that raised after its network call leaves in the log.
NoStep == [mean |-> <<"none">>, noisy |-> FALSE, var |-> NoVar]

NoArgs == [t |-> <<>>, t_prev |-> <<>>, flag |-> FALSE, eta |-> 0, N |-> 0]

NoResult ==
    [op |-> "none", args |-> NoArgs, status |-> "none", error |-> "none",
     net |-> 0, out |-> <<>>, calls |-> <<>>, sample |-> 0]

\* The scheduler after in-place operations on the tensors named: a buffer
\* among them no longer holds what the constructor registered.
Clobber(s, written) ==
    [s EXCEPT
       !.betas = IF "betas" \in written
                 THEN [k \in 1..Len(@) |-> @[k] + 1] ELSE @,
       !.alphas = IF "alphas" \in written
                  THEN [k \in 1..Len(@) |-> @[k] + 1] ELSE @,
       !.alphas_cumprod = IF "alphas_cumprod" \in written
                          THEN [k \in 1..Len(@) |-> @[k] + 1] ELSE @]

Built == sched.raised = "none"

T == sched.num_train_timesteps

Init ==
    /\ \E n \in TInputs, mode \in ModeInputs :
           /\ ctor = [num_train_timesteps |-> n, mode |-> mode]
           /\ sched = BaseScheduler_init(n, mode)
    /\ pc = "idle"
    /\ args = NoArgs
    /\ ts = <<>>
    /\ prevs = <<>>
    /\ i = 1
    /\ xt = 0
    /\ calls = <<>>
    /\ reads = {}
    /\ result = NoResult
    /\ traj = <<>>

\* The engine is between two operations: constructed, no loop running and
\* the outcome of the last operation taken by its caller.
Ready == pc = "idle" /\ Built /\ result.status = "none"

\* A single call of a step function, from its arguments to its outcome.
StepCall(op, a, res) ==
    /\ Ready
    /\ result' = [op |-> op, args |-> a,
                  status |-> IF res.raised THEN "raised" ELSE "returned",
                  error |-> IF res.raised THEN "RuntimeError" ELSE "none",
                  net |-> res.net, out |-> res.out, calls |-> <<>>,
                  sample |-> IF res.raised THEN 0 ELSE 1]
    /\ reads' = res.reads
    /\ sched' = Clobber(sched, res.writes)
    /\ UNCHANGED <<traj, ctor, pc, args, ts, prevs, i, xt, calls>>

Call_q_sample ==
    \E t \in BatchInputs(T) :
        StepCall("q_sample", [NoArgs EXCEPT !.t = t], q_sample(sched, t))

Call_p_sample ==
    \E t \in BatchInputs(T), f \in BOOLEAN :
        StepCall("p_sample", [NoArgs EXCEPT !.t = t, !.flag = f],
                 p_sample(sched, t, f))

Call_p_sample_mu ==
    \E t \in BatchInputs(T), f \in BOOLEAN :
        StepCall("p_sample_mu", [NoArgs EXCEPT !.t = t, !.flag = f],
                 p_sample_mu(sched, t, f))

Call_p_sample_x0 ==
    \E t \in BatchInputs(T), f \in BOOLEAN :
        StepCall("p_sample_x0", [NoArgs EXCEPT !.t = t, !.flag = f],
                 p_sample_x0(sched, t, f))

Call_ddim_p_sample ==
    \E t \in StepInputs(T), t_prev \in (-2)..T, eta \in EtaInputs :
        StepCall("ddim_p_sample",
                 [NoArgs EXCEPT !.t = <<t>>, !.t_prev = <<t_prev>>,
                                !.eta = eta],
                 ddim_p_sample(sched, <<t>>, <<t_prev>>, eta))

\* The batches of timesteps torch.randint(low, T, size=(batch_size,)) can
\* draw from a non-empty range.
LossDraws(range) == UNION {[1..b -> range] : b \in 1..MaxBatch}

\* A loss computation: torch.randint raises on an empty range before
\* anything is read; otherwise a batch of timesteps is drawn from it.
Call_compute_loss ==
    IF loss_timesteps(T) = {}
    THEN StepCall("compute_loss", NoArgs, Raised(NothingRun))
    ELSE \E t \in LossDraws(loss_timesteps(T)) :
             StepCall("compute_loss", [NoArgs EXCEPT !.t = t],
                      compute_loss(sched, t))

Call_compute_loss_mu_predictor ==
    IF loss_mu_timesteps(T) = {}
    THEN StepCall("compute_loss_mu_predictor", NoArgs, Raised(NothingRun))
    ELSE \E t \in LossDraws(loss_mu_timesteps(T)) :
             StepCall("compute_loss_mu_predictor", [NoArgs EXCEPT !.t = t],
                      compute_loss_mu_predictor(sched, t))

Call_compute_loss_x0_predictor ==
    IF loss_mu_timesteps(T) = {}
    THEN StepCall("compute_loss_x0_predictor", NoArgs, Raised(NothingRun))
    ELSE \E t \in LossDraws(loss_mu_timesteps(T)) :
             StepCall("compute_loss_x0_predictor", [NoArgs EXCEPT !.t = t],
                      compute_loss_x0_predictor(sched, t))

\* Entering a loop: xt = torch.randn(shape), then the first iteration.
Enter(loop, a, timesteps, prev_timesteps) ==
    /\ Ready
    /\ pc' = loop
    /\ args' = a
    /\ ts' = timesteps
    /\ prevs' = prev_timesteps
    /\ i' = 1
    /\ xt' = 0
    /\ calls' = <<>>
    /\ reads' = {}
    /\ result' = NoResult
    /\ UNCHANGED <<traj, ctor, sched>>

Start_p_sample_loop ==
    \E f \in BOOLEAN :
        Enter("p_sample_loop", [NoArgs EXCEPT !.flag = f],
              p_sample_loop_timesteps(sched), <<>>)

Start_p_sample_loop_mu ==
    \E f \in BOOLEAN :
        Enter("p_sample_loop_mu", [NoArgs EXCEPT !.flag = f],
              p_sample_loop_mu_timesteps(sched), <<>>)

Start_p_sample_loop_x0 ==
    \E f \in BOOLEAN :
        Enter("p_sample_loop_x0", [NoArgs EXCEPT !.flag = f],
              p_sample_loop_mu_timesteps(sched), <<>>)

\* ddim_p_sample_loop with a non-zero num_inference_timesteps.
Start_ddim_p_sample_loop ==
    \E N \in NInputs \ {0}, eta \in EtaInputs :
        Enter("ddim_p_sample_loop", [NoArgs EXCEPT !.N = N, !.eta = eta],
              ddim_timesteps(T, N), ddim_prev_timesteps(T, N))

\* ddim_p_sample_loop with num_inference_timesteps = 0: line 248 divides
\* by zero before anything else happens.
Start_ddim_p_sample_loop_zero ==
    /\ Ready
    /\ \E eta \in EtaInputs :
           result' = [NoResult EXCEPT !.op = "ddim_p_sample_loop",
                                      !.args = [NoArgs EXCEPT !.eta = eta],
                                      !.status = "raised",
                                      !.error = "ZeroDivisionError"]
    /\ reads' = {}
    /\ UNCHANGED <<traj, ctor, sched, pc, args, ts, prevs, i, xt, calls>>

\* One iteration of the running loop: the step function on the current
\* sample; its error, if any, ends the loop.
LoopStep ==
    /\ pc \in Loops
    /\ i <= Len(ts)
    /\ LET t == ts[i]
           t_prev == IF pc = "ddim_p_sample_loop" THEN prevs[i] ELSE t - 1
           res == StepOf(pc, sched, t, t_prev, args)
           made == IF res.net > 0
                   THEN Append(calls, [t |-> t, t_prev |-> t_prev,
                                       xin |-> xt, xout |-> i,
                                       step |-> IF res.raised THEN NoStep
                                                ELSE res.out[1]])
                   ELSE calls
       IN  /\ reads' = reads \cup res.reads
           /\ sched' = Clobber(sched, res.writes)
           /\ calls' = made
           /\ IF res.raised
              THEN /\ pc' = "idle"
                   /\ result' = [NoResult EXCEPT !.op = pc, !.args = args,
                                     !.status = "raised",
                                     !.error = "RuntimeError",
                                     !.net = Len(made), !.calls = made]
                   /\ UNCHANGED <<xt, i>>
              ELSE /\ xt' = NextSample(xt, i)
                   /\ i' = i + 1
                   /\ UNCHANGED <<pc, result>>
    /\ UNCHANGED <<traj, ctor, args, ts, prevs>>

\* The loop is over: `return x0_pred`.
LoopReturn ==
    /\ pc \in Loops
    /\ i > Len(ts)
    /\ pc' = "idle"
    /\ result' = [NoResult EXCEPT !.op = pc, !.args = args,
                      !.status = "returned", !.net = Len(calls),
                      !.calls = calls, !.sample = xt]
    /\ UNCHANGED <<traj, ctor, sched, args, ts, prevs, i, xt, calls, reads>>

\* sample(batch_size, return_traj, class_label, guidance_scale) up to its
\* loop (lines 55-70): the initial noise, the guidance decision, the
\* asserts on class_label and its extension with null labels.
Start_sample ==
    /\ Ready
    /\ \E batch_size \in 1..MaxBatch, return_traj \in BOOLEAN,
          class_label \in ClassLabelInputs, guidance_scale \in GuidanceInputs :
         LET cfg == do_classifier_free_guidance(guidance_scale)
             a == [batch_size |-> batch_size, return_traj |-> return_traj,
                   class_label_arg |-> class_label,
                   guidance_scale |-> guidance_scale,
                   do_classifier_free_guidance |-> cfg,
                   class_label |-> IF cfg /\ LabelsAccepted(class_label,
                                                             batch_size)
                                   THEN WithNullLabels(class_label, batch_size)
                                   ELSE class_label]
         IN  IF cfg /\ ~LabelsAccepted(class_label, batch_size)
             THEN /\ result' = [NoResult EXCEPT !.op = "sample", !.args = a,
                                    !.status = "raised",
                                    !.error = "AssertionError"]
                  /\ UNCHANGED <<pc, args, ts, traj>>
             ELSE /\ pc' = "sample"
                  /\ args' = a
                  /\ ts' = var_scheduler_timesteps(sched)
                  /\ traj' = <<x_T>>
                  /\ result' = NoResult
    /\ i' = 1
    /\ calls' = <<>>
    /\ reads' = {}
    /\ UNCHANGED <<ctor, sched, prevs, xt>>

\* One iteration of the image sampler's loop (lines 71-88).
SampleStep ==
    /\ pc = "sample"
    /\ i <= Len(ts)
    /\ LET t == ts[i]
           x_t == traj[Len(traj)]
           cfg == args.do_classifier_free_guidance
           x_t_prev == var_scheduler_step(i, x_t, t,
                                          noise_pred(cfg, args.guidance_scale))
       IN  /\ calls' = calls \o network_calls(x_t, t, cfg, args.class_label,
                                              args.batch_size)
           /\ traj' = traj_append(traj, x_t_prev)
    /\ i' = i + 1
    /\ UNCHANGED <<ctor, sched, pc, args, ts, prevs, xt, reads, result>>

\* The end of sample (lines 90-93): the list, or its last element.
SampleReturn ==
    /\ pc = "sample"
    /\ i > Len(ts)
    /\ pc' = "idle"
    /\ result' = [NoResult EXCEPT
                      !.op = "sample", !.args = args, !.status = "returned",
                      !.net = Len(calls), !.calls = calls,
                      !.out = IF args.return_traj THEN traj
                              ELSE <<traj[Len(traj)]>>,
                      !.sample = traj[Len(traj)].id]
    /\ UNCHANGED <<ctor, sched, args, ts, prevs, i, xt, calls, reads, traj>>

\* The caller takes the outcome of the operation that ended; nothing of
\* it stays in the engine.
TakeResult ==
    /\ pc = "idle"
    /\ result.status # "none"
    /\ result' = NoResult
    /\ reads' = {}
    /\ calls' = <<>>
    /\ xt' = 0
    /\ i' = 1
    /\ ts' = <<>>
    /\ prevs' = <<>>
    /\ args' = NoArgs
    /\ traj' = <<>>
    /\ UNCHANGED <<ctor, sched, pc>>

Next ==
    \/ Call_q_sample
    \/ Call_p_sample
    \/ Call_p_sample_mu
    \/ Call_p_sample_x0
    \/ Call_ddim_p_sample
    \/ Call_compute_loss
    \/ Call_compute_loss_mu_predictor
    \/ Call_compute_loss_x0_predictor
    \/ Start_p_sample_loop
    \/ Start_p_sample_loop_mu
    \/ Start_p_sample_loop_x0
    \/ Start_ddim_p_sample_loop
    \/ Start_sample
    \/ SampleStep
    \/ SampleReturn
    \/ Start_ddim_p_sample_loop_zero
    \/ LoopStep
    \/ LoopReturn
    \/ TakeResult

Spec == Init /\ [][Next]_vars

(* ============================ properties ============================== *)

AncestralLoops == {"p_sample_loop", "p_sample_loop_mu", "p_sample_loop_x0"}

SingleSteps ==
    {"q_sample", "p_sample", "p_sample_mu", "p_sample_x0", "ddim_p_sample"}

\* The timesteps of a sequence of denoising steps, in the order made.
CallTimesteps(c) == [k \in 1..Len(c) |-> c[k].t]

\* from, from - 1, ..., to.
Descending(from, to) == [k \in 1..Max0(from - to + 1) |-> from + 1 - k]

\* Every step's input is the output of the step before it; the first
\* step's input is the initial noise.
Chained(c) ==
    \A k \in 1..Len(c) :
        /\ c[k].xin = (IF k = 1 THEN 0 ELSE c[k - 1].xout)
        /\ c[k].xout # c[k].xin

\* The last timestep an ancestral loop reaches: 0 for eps, 1 for mu and x0.
LastTimestep(loop) == IF loop = "p_sample_loop" THEN 0 ELSE 1

InRange(t) == \A k \in 1..Len(t) : t[k] \in 0..(T - 1)

\* C1: for T >= 1 a full ancestral loop returns after invoking the denoising
\* function exactly T times at T-1, ..., 0 (eps) or exactly T-1 times at
\* T-1, ..., 1 (mu, x0), in that order, each step fed the output of the
\* step before; while it runs, the steps made so far are a prefix of those.
C1_AncestralLoopCalls ==
    /\ (result.op \in AncestralLoops /\ T >= 1) =>
           /\ result.status = "returned"
           /\ CallTimesteps(result.calls)
                  = Descending(T - 1, LastTimestep(result.op))
           /\ result.net = (IF result.op = "p_sample_loop" THEN T ELSE T - 1)
           /\ Chained(result.calls)
           /\ result.sample = result.net
    /\ (pc \in AncestralLoops /\ T >= 1) =>
           /\ CallTimesteps(calls)
                  = SubSeq(Descending(T - 1, LastTimestep(pc)), 1, Len(calls))
           /\ Chained(calls)
           /\ xt = Len(calls)

\* C1 witness: the mu loop of a schedule of 3 or more timesteps has returned
\* after 2 or more steps, none of them at t = 0.
C1_Witness ==
    /\ result.op = "p_sample_loop_mu"
    /\ result.status = "returned"
    /\ T >= 3
    /\ Len(result.calls) = T - 1
    /\ result.calls[Len(result.calls)].t = 1

\* C2: for 1 <= N <= T the DDIM loop returns after exactly N steps whose
\* timesteps are distinct values of [0, T), strictly descending and exactly
\* T // N apart, and every step but the last is given as t_prev the t of
\* the step after it.
C2_DdimStridedSubsequence ==
    (/\ result.op = "ddim_p_sample_loop"
     /\ result.args.N >= 1
     /\ result.args.N <= T) =>
        LET c == result.calls
        IN  /\ result.status = "returned"
            /\ Len(c) = result.args.N
            /\ \A k \in 1..Len(c) : c[k].t \in 0..(T - 1)
            /\ Cardinality({c[k].t : k \in 1..Len(c)}) = result.args.N
            /\ \A k \in 1..(Len(c) - 1) :
                   /\ c[k].t > c[k + 1].t
                   /\ c[k].t - c[k + 1].t = T \div result.args.N
                   /\ c[k].t_prev = c[k + 1].t
            /\ Chained(c)

\* C2 witness: a DDIM loop of 2 steps over 4 or more timesteps (stride >= 2)
\* has returned.
C2_Witness ==
    /\ result.op = "ddim_p_sample_loop"
    /\ result.status = "returned"
    /\ result.args.N = 2
    /\ T >= 4
    /\ Len(result.calls) = 2
    /\ result.calls[1].t - result.calls[2].t >= 2

C4_Claim ==
    (result.op = "p_sample" /\ InRange(result.args.t)) =>
        /\ result.status = "returned"
        /\ Len(result.out) = Len(result.args.t)
        /\ \A k \in 1..Len(result.out) :
               /\ result.out[k].noisy <=> result.args.t[k] > 0
               /\ result.args.t[k] > 0 => result.out[k].var.num > 0
               /\ result.args.t[k] = 0 => result.out[k].var = NoVar

\* C5 as stated: p_sample_mu and p_sample_x0 called with one timestep in
\* range return; with t = 0 the mean without noise, with t > 0 mean plus noise.
C5_Claim ==
    (/\ result.op \in {"p_sample_mu", "p_sample_x0"}
     /\ Len(result.args.t) = 1
     /\ InRange(result.args.t)) =>
        /\ result.status = "returned"
        /\ result.out[1].noisy <=> result.args.t[1] > 0

\* C6 as stated: for the same flag and the same t > 0, p_sample scales its
\* noise by the same variance as p_sample_mu and p_sample_x0.
C6_Claim ==
    (/\ result.op = "p_sample"
     /\ result.status = "returned"
     /\ Len(result.args.t) = 1
     /\ result.args.t[1] > 0) =>
        /\ SameVar(result.out[1].var,
                   p_sample_mu(sched, result.args.t, result.args.flag).out[1].var)
        /\ SameVar(result.out[1].var,
                   p_sample_x0(sched, result.args.t, result.args.flag).out[1].var)

\* The outcome of p_sample on one example alone with the single timestep t.
Alone(t, flag) == p_sample(sched, <<t>>, flag)

\* C7 as stated: p_sample on a batch with the uniform timestep vector
\* (t, ..., t), t in [0, T), gives each example the outcome of p_sample on
\* that example alone with the single timestep t: same success or failure,
\* same mean, same decision to inject noise, same noise scale.
C7_Claim ==
    (/\ result.op = "p_sample"
     /\ Len(result.args.t) > 1
     /\ InRange(result.args.t)
     /\ \A k \in 1..Len(result.args.t) : result.args.t[k] = result.args.t[1]) =>
        \A k \in 1..Len(result.args.t) :
            LET one == Alone(result.args.t[k], result.args.flag)
            IN  /\ (result.status = "raised") <=> one.raised
                /\ ~one.raised => result.out[k] = one.out[1]

\* C8 as stated: the constructor raises for an unknown mode and for T < 1;
\* for a known mode and T >= 1 it yields beta, alpha, alpha-bar of length T
\* and the timesteps T-1, ..., 0.
C8_Claim ==
    LET n == ctor.num_train_timesteps
    IN  /\ (ctor.mode \notin {"linear", "quad"} \/ n < 1) =>
               sched.raised # "none"
        /\ (ctor.mode \in {"linear", "quad"} /\ n >= 1) =>
               /\ sched.raised = "none"
               /\ Len(sched.betas) = n
               /\ Len(sched.alphas) = n
               /\ Len(sched.alphas_cumprod) = n
               /\ sched.timesteps = Descending(n - 1, 0)

\* C9: a single-step sampler or q_sample called with a timestep outside
\* [0, T), or ddim_p_sample with a t_prev of T or more, raises at that call
\* and returns no sample.
C9_OutOfRangeRejected ==
    (/\ result.op \in SingleSteps
     /\ \/ ~InRange(result.args.t)
        \/ result.op = "ddim_p_sample" /\ result.args.t_prev[1] >= T) =>
        /\ result.status = "raised"
        /\ result.out = <<>>
        /\ result.sample = 0

\* C9 witness: p_sample was called with t = T on a schedule of one or more
\* timesteps, and raised.
C9_Witness ==
    /\ result.op = "p_sample"
    /\ T >= 1
    /\ result.args.t = <<T>>
    /\ result.status = "raised"

\* C10 as stated: the DDIM loop called with num_inference_timesteps <= 0 or
\* > T raises before any denoising step and never returns a sample.
C10_Claim ==
    /\ (/\ result.op = "ddim_p_sample_loop"
        /\ (result.args.N <= 0 \/ result.args.N > T)) =>
           /\ result.status = "raised"
           /\ result.calls = <<>>
    /\ (/\ pc = "ddim_p_sample_loop"
        /\ (args.N <= 0 \/ args.N > T)) =>
           calls = <<>>

\* A step result that adds a non-zero random term to the sample.
Injects(o) == o.noisy /\ o.var.num # 0

\* C13: with eta = 0 no DDIM step, alone or in the loop, adds a non-zero
\* random term; and for any eta a DDIM step whose t_prev is negative uses
\* alpha-bar_prev = 1, has sigma^2 = 0 and draws no random term; the final
\* step of a loop with 1 <= N <= T is such a step.
C13_DdimDeterminism ==
    /\ (result.op = "ddim_p_sample" /\ result.status = "returned") =>
           /\ result.args.eta = 0 => ~Injects(result.out[1])
           /\ result.args.t_prev[1] < 0 =>
                  /\ result.out[1].mean[3] = Scale
                  /\ result.out[1].var.num = 0
                  /\ ~result.out[1].noisy
    /\ (result.op = "ddim_p_sample_loop" /\ result.status = "returned") =>
           /\ \A k \in 1..Len(result.calls) :
                  /\ result.args.eta = 0 => ~Injects(result.calls[k].step)
                  /\ result.calls[k].t_prev < 0 =>
                         /\ result.calls[k].step.mean[3] = Scale
                         /\ result.calls[k].step.var.num = 0
                         /\ ~result.calls[k].step.noisy
           /\ (result.args.N >= 1 /\ result.args.N <= T) =>
                  ~Injects(result.calls[Len(result.calls)].step)

\* C13 witness: a DDIM loop of 2 or more steps with eta = 0 has returned,
\* its first step having a t_prev >= 0 and its last a negative one.
C13_Witness ==
    /\ result.op = "ddim_p_sample_loop"
    /\ result.status = "returned"
    /\ result.args.eta = 0
    /\ Len(result.calls) >= 2
    /\ result.calls[1].t_prev >= 0
    /\ result.calls[1].step.noisy
    /\ result.calls[Len(result.calls)].t_prev < 0

Losses ==
    {"compute_loss", "compute_loss_mu_predictor", "compute_loss_x0_predictor"}

\* C12: the schedule is read-only after construction: whatever operations
\* have run or are running, the scheduler (beta, alpha, alpha-bar, the
\* timestep sequence and T) is exactly what the constructor produced from
\* its arguments.
C12_ScheduleReadOnly ==
    sched = BaseScheduler_init(ctor.num_train_timesteps, ctor.mode)

\* C12 witness: an eps loop of 2 or more steps with sigma^2 = beta_t, whose
\* steps at t > 0 add their noise in place, has returned.
C12_Witness ==
    /\ result.op = "p_sample_loop"
    /\ result.status = "returned"
    /\ ~result.args.flag
    /\ Len(result.calls) >= 2
    /\ [arr |-> "betas", idx |-> 1] \in reads

\* The operation that is running or has just ended is a full sampling loop
\* (DDIM with 1 <= N <= T) or a loss computation.
NormalUse ==
    \/ pc \in AncestralLoops
    \/ pc = "ddim_p_sample_loop" /\ args.N >= 1 /\ args.N <= T
    \/ result.op \in AncestralLoops \cup Losses
    \/ /\ result.op = "ddim_p_sample_loop"
       /\ result.args.N >= 1
       /\ result.args.N <= T

\* C14: for T >= 1, every index a full sampling loop or a loss computation
\* reads beta, alpha or alpha-bar at, the t - 1 and t_prev lookups
\* included, lies in [0, T).
C14_ReadsInRange ==
    (T >= 1 /\ NormalUse) => \A r \in reads : r.idx \in 0..(T - 1)

\* C14 witness: the mu-matching loss has returned after drawing t = 1 for
\* an example and reading alpha-bar at t - 1 = 0.
C14_Witness ==
    /\ result.op = "compute_loss_mu_predictor"
    /\ result.status = "returned"
    /\ \E k \in 1..Len(result.args.t) : result.args.t[k] = 1
    /\ [arr |-> "alphas_cumprod", idx |-> 0] \in reads

\* Two tensors with the same values: one is the other, or its copy on
\* another device.
SameTensor(a, b) == a.id = b.id /\ a.from = b.from /\ a.t = b.t

\* Element k + 1 of the list is one reverse step applied to element k at
\* timestep T - k (0-based: element i + 1 from element i at T - 1 - i).
StepOfPrevious(tr, k) ==
    /\ tr[k + 1].from = tr[k].id
    /\ tr[k + 1].t = T - k
    /\ tr[k + 1].id # tr[k].id

\* C11: the image sampler's trajectory starts with the initial pure-noise
\* tensor and grows by one reverse step of its last element per iteration;
\* when the sampler returns it has exactly T + 1 elements, element i + 1
\* being the step of element i at timestep T - 1 - i, and the call returns
\* the whole list with return_traj=True and only its last element
\* otherwise.
C11_Trajectory ==
    /\ pc = "sample" =>
           /\ Len(traj) = i
           /\ SameTensor(traj[1], x_T)
           /\ \A k \in 1..(i - 1) : StepOfPrevious(traj, k)
    /\ (result.op = "sample" /\ result.status = "returned") =>
           /\ Len(traj) = T + 1
           /\ SameTensor(traj[1], x_T)
           /\ \A k \in 1..T : StepOfPrevious(traj, k)
           /\ result.out = IF result.args.return_traj THEN traj
                           ELSE <<traj[T + 1]>>

\* C11 witness: a pass of 3 or more steps has returned its whole
\* trajectory.
C11_Witness ==
    /\ result.op = "sample"
    /\ result.status = "returned"
    /\ result.args.return_traj
    /\ T >= 3
    /\ Len(result.out) = T + 1

\* The network invocations of the k-th iteration, in order.
CallsOfStep(log, k, per) == SubSeq(log, (k - 1) * per + 1, k * per)

\* C15, for a call sample(batch_size, return_traj, class_label,
\* guidance_scale) with arguments a, k iterations made and the network
\* invocations log: with guidance_scale > 1.0 each iteration invoked the
\* network exactly twice on the iteration's sample and timestep, first with
\* batch_size zero labels, then with the labels given; with
\* guidance_scale <= 1.0 exactly once, with no class label.
GuidedCalls(a, k, log, tr) ==
    IF a.guidance_scale > GuidanceOne
    THEN /\ Len(log) = 2 * k
         /\ \A j \in 1..k :
                LET c == CallsOfStep(log, j, 2)
                IN  /\ c[1].class_label =
                           Labels([n \in 1..a.batch_size |-> 0])
                    /\ c[2].class_label = a.class_label_arg
                    /\ \A n \in 1..2 :
                           c[n].x = tr[j].id /\ c[n].t = T - j
    ELSE /\ Len(log) = k
         /\ \A j \in 1..k :
                /\ log[j].class_label = NoneLabel
                /\ log[j].x = tr[j].id
                /\ log[j].t = T - j

\* C15: classifier-free guidance is active exactly when guidance_scale >
\* 1.0. The call fails, before any step, exactly when guidance is active
\* and class_label is missing or its length is not batch_size; otherwise
\* all T steps run, each invoking the network twice (null labels, then the
\* given labels) under guidance and once without a class label otherwise,
\* whether or not a class_label was supplied.
C15_Guidance ==
    /\ pc = "sample" => GuidedCalls(args, i - 1, calls, traj)
    /\ result.op = "sample" =>
           LET a == result.args
               rejected ==
                   /\ a.guidance_scale > GuidanceOne
                   /\ \/ a.class_label_arg.is_none
                      \/ Len(a.class_label_arg.labels) # a.batch_size
           IN  /\ result.status = "raised" <=> rejected
               /\ result.status = "raised" =>
                      /\ result.error = "AssertionError"
                      /\ result.calls = <<>>
                      /\ calls = <<>>
                      /\ traj = <<>>
               /\ result.status = "returned" =>
                      GuidedCalls(a, T, result.calls, traj)

\* C15 witness: a guided pass of 2 or more steps over a batch of 2 labels
\* has returned.
C15_Witness ==
    /\ result.op = "sample"
    /\ result.status = "returned"
    /\ result.args.guidance_scale > GuidanceOne
    /\ Len(result.args.class_label_arg.labels) = 2
    /\ T >= 2
    /\ Len(result.calls) = 2 * T

\* A second witness of the unguided case: a pass at guidance_scale = 1.0
\* that was given class labels has returned.
C15_UnguidedWithLabels ==
    /\ result.op = "sample"
    /\ result.status = "returned"
    /\ result.args.guidance_scale = GuidanceOne
    /\ ~result.args.class_label_arg.is_none
    /\ T >= 1

====
